---- MODULE Spec2Model ----
(***************************************************************************)
(* Model of powermon (src/powermon.go): a monitor that queries UPower's    *)
(* OnBattery property, runs an external action for the initial state, and  *)
(* then runs it again for every PropertiesChanged signal that carries      *)
(* OnBattery, until a SIGINT/SIGTERM makes main call shutdown().           *)
(*                                                                         *)
(* Two threads of control are modelled: the main goroutine (pcMain), which *)
(* runs main -> newPowermon -> go run -> signal wait -> shutdown -> exit,  *)
(* and the run goroutine (pcLoop).  The environment is the UPower service  *)
(* (Emit), the operating system delivering a termination signal            *)
(* (MainSignal) and the external action process, which is in flight from   *)
(* the moment exec starts it until it returns with some outcome.           *)
(***************************************************************************)
EXTENDS Integers, Sequences, FiniteSets, TLC

VARIABLES
    pcMain,          \* position of the main goroutine
    pcLoop,          \* position of the run goroutine
    state,           \* powermon.state
    sessBus,         \* powermon.sessBus: "nil", "open", "closed"
    sysBus,          \* powermon.sysBus:  "nil", "open", "closed"
    matchAdded,      \* the AddMatchSignal rule is installed on the system bus
    sigRegistered,   \* channel c is registered with sysBus.Signal
    c,               \* the signal channel of run: sequence of signal bodies
    quitClosed,      \* close(p.quitCh) has run
    actions,         \* every exec.Command started so far, as its argument vector
    execErr,         \* err of the most recent CombinedOutput that returned
    exitCode,        \* argument of os.Exit, meaningful when pcMain = "exited"
    setupErr,        \* the error newPowermon returned, "nil" if none
    setup,           \* what each collaborator call of newPowermon answered
    queryResult,     \* outcome of the initial GetProperty: "none" until made
    upowerOnBattery, \* the power service's actual OnBattery value
    emitted,         \* number of signals sent towards the connection so far
    handled,         \* the property maps run has received from c, in order
    reqDuringAction  \* the termination signal arrived while an action was in flight

vars == <<pcMain, pcLoop, state, sessBus, sysBus, matchAdded, sigRegistered, c,
          quitClosed, actions, execErr, exitCode, setupErr, setup, queryResult,
          upowerOnBattery, emitted, handled, reqDuringAction>>

(***************************************************************************)
(* Bounds                                                                  *)
(***************************************************************************)
\* total number of signals the power service and other peers send
MaxEmit == 3

(***************************************************************************)
(* Power states and their string form                                      *)
(***************************************************************************)
UNKNOWN == 0
ON_BATTERY == 1
AC_POWER == 2

states == (UNKNOWN :> "UNKNOWN") @@ (ON_BATTERY :> "ON_BATTERY") @@ (AC_POWER :> "AC_POWER")

\* a Go map lookup of a missing key yields the zero value, the empty string
StringMissingUnknown(ps) == IF ps \in {ON_BATTERY, AC_POWER} THEN states[ps] ELSE ""

String(ps) == IF ps \in DOMAIN states THEN states[ps] ELSE ""

(***************************************************************************)
(* D-Bus variants and the PropertiesChanged payload                        *)
(***************************************************************************)
onBattery == "OnBattery"
lidClosed == "LidClosed"

BoolVariant(b) == [sig |-> "b", b |-> b]
StringVariant(s) == [sig |-> "s", s |-> s]

\* a mutant that formats a string variant without quoting it
VariantStringUnquoted(v) ==
    CASE v.sig = "b" -> (IF v.b THEN "true" ELSE "false")
      [] v.sig = "s" -> v.s
      [] OTHER -> "<nil>"

\* dbus.Variant.String(): a boolean prints as true/false, a string is quoted
VariantString(v) ==
    CASE v.sig = "b" -> (IF v.b THEN "true" ELSE "false")
      [] v.sig = "s" -> "\"" \o v.s \o "\""
      [] OTHER -> "<nil>"

\* the changed-properties maps (sig.Body[1]) the power service may emit
Payloads ==
    { (onBattery :> BoolVariant(TRUE)),
      (onBattery :> BoolVariant(FALSE)),
      (onBattery :> StringVariant("true")),
      (lidClosed :> BoolVariant(TRUE)),
      (lidClosed :> BoolVariant(TRUE)) @@ (onBattery :> BoolVariant(FALSE)) }

HasOnBattery(val) == onBattery \in DOMAIN val

\* sig.Body of a PropertiesChanged signal: the interface name, the
\* changed-properties map and the invalidated property names
PropertiesChanged(val) ==
    << [sig |-> "s"], [sig |-> "a{sv}", dict |-> val], [sig |-> "as"] >>

\* bodies of other signals a peer on the bus can address to the connection:
\* no arguments at all, or a second argument that is no a{sv}
OtherBodies == { << >>, << [sig |-> "s"], [sig |-> "s"] >> }

\* the index Body[1] exists and the assertion to map[string]dbus.Variant holds
HasPropertyMap(body) == Len(body) >= 2 /\ body[2].sig = "a{sv}"

\* the zero dbus.Variant, which a lookup of a missing key yields
ZeroVariant == [sig |-> ""]

\* a mutant that takes every map as containing the key
MapLookupIgnoreOk(val, key) ==
    IF key \in DOMAIN val
    THEN [v |-> val[key], ok |-> TRUE]
    ELSE [v |-> ZeroVariant, ok |-> TRUE]

\* v, ok := val[key]
MapLookup(val, key) ==
    IF key \in DOMAIN val
    THEN [v |-> val[key], ok |-> TRUE]
    ELSE [v |-> ZeroVariant, ok |-> FALSE]

\* the switch on v.String() in run
Classify(v) ==
    CASE VariantString(v) = "true" -> ON_BATTERY
      [] VariantString(v) = "false" -> AC_POWER
      [] OTHER -> UNKNOWN

\* the outcomes of exec.Command(...).CombinedOutput()
ExecOutcomes == {"nil", "exit status 1", "fork/exec failed"}

\* stateChange up to the blocking CombinedOutput call: the command is started
\* with the string form of the given state as its only argument
StartAction(st) == Append(actions, <<String(st)>>)

Alive == pcMain # "exited"

(***************************************************************************)
(* Initial state                                                           *)
(***************************************************************************)
Init ==
    /\ pcMain = "main"
    /\ pcLoop = "notStarted"
    /\ state = UNKNOWN
    /\ sessBus = "nil"
    /\ sysBus = "nil"
    /\ matchAdded = FALSE
    /\ sigRegistered = FALSE
    /\ c = << >>
    /\ quitClosed = FALSE
    /\ actions = << >>
    /\ execErr = "none"
    /\ exitCode = 0
    /\ setupErr = "nil"
    /\ setup = [sess |-> "none", name |-> "none", sys |-> "none", match |-> "none"]
    /\ queryResult = "none"
    /\ upowerOnBattery \in BOOLEAN
    /\ emitted = 0
    /\ handled = << >>
    /\ reqDuringAction = FALSE

(***************************************************************************)
(* main and newPowermon, on the main goroutine                             *)
(***************************************************************************)
\* main up to the call of newPowermon: an empty --action exits with status 1
MainFlags ==
    /\ pcMain = "main"
    /\ \E actionGiven \in BOOLEAN :
         IF actionGiven
         THEN /\ pcMain' = "connectSession"
              /\ UNCHANGED exitCode
         ELSE /\ pcMain' = "exited"
              /\ exitCode' = 1
    /\ UNCHANGED <<pcLoop, state, sessBus, sysBus, matchAdded, sigRegistered, c,
                   quitClosed, actions, execErr, setupErr, setup, queryResult,
                   upowerOnBattery, emitted, handled, reqDuringAction>>

\* dbus.ConnectSessionBus()
MainConnectSession ==
    /\ pcMain = "connectSession"
    /\ \E ok \in BOOLEAN :
         /\ setup' = [setup EXCEPT !.sess = IF ok THEN "ok" ELSE "fail"]
         /\ IF ok
            THEN /\ sessBus' = "open"
                 /\ pcMain' = "requestName"
                 /\ UNCHANGED setupErr
            ELSE /\ setupErr' = "session bus connect failed"
                 /\ pcMain' = "setupFailed"
                 /\ UNCHANGED sessBus
    /\ UNCHANGED <<pcLoop, state, sysBus, matchAdded, sigRegistered, c,
                   quitClosed, actions, execErr, exitCode, queryResult,
                   upowerOnBattery, emitted, handled, reqDuringAction>>

\* a mutant that checks only err, not the reply, of RequestName
MainRequestNameNoOwnerCheck ==
    /\ pcMain = "requestName"
    /\ \E r \in {"error", "PrimaryOwner", "Exists"} :
         /\ setup' = [setup EXCEPT !.name = r]
         /\ IF r = "error"
            THEN /\ setupErr' = "RequestName failed"
                 /\ pcMain' = "setupFailed"
            ELSE /\ pcMain' = "connectSystem"
                 /\ UNCHANGED setupErr
    /\ UNCHANGED <<pcLoop, state, sessBus, sysBus, matchAdded, sigRegistered, c,
                   quitClosed, actions, execErr, exitCode, queryResult,
                   upowerOnBattery, emitted, handled, reqDuringAction>>

\* sessBus.RequestName(pmon, DoNotQueue): an error, or a reply that is or is
\* not RequestNameReplyPrimaryOwner
MainRequestName ==
    /\ pcMain = "requestName"
    /\ \E r \in {"error", "PrimaryOwner", "Exists"} :
         /\ setup' = [setup EXCEPT !.name = r]
         /\ CASE r = "error" ->
                   /\ setupErr' = "RequestName failed"
                   /\ pcMain' = "setupFailed"
              [] r = "Exists" ->
                   /\ setupErr' = "not the primary owner"
                   /\ pcMain' = "setupFailed"
              [] r = "PrimaryOwner" ->
                   /\ pcMain' = "connectSystem"
                   /\ UNCHANGED setupErr
    /\ UNCHANGED <<pcLoop, state, sessBus, sysBus, matchAdded, sigRegistered, c,
                   quitClosed, actions, execErr, exitCode, queryResult,
                   upowerOnBattery, emitted, handled, reqDuringAction>>

\* dbus.ConnectSystemBus()
MainConnectSystem ==
    /\ pcMain = "connectSystem"
    /\ \E ok \in BOOLEAN :
         /\ setup' = [setup EXCEPT !.sys = IF ok THEN "ok" ELSE "fail"]
         /\ IF ok
            THEN /\ sysBus' = "open"
                 /\ pcMain' = "getProperty"
                 /\ UNCHANGED setupErr
            ELSE /\ setupErr' = "system bus connect failed"
                 /\ pcMain' = "setupFailed"
                 /\ UNCHANGED sysBus
    /\ UNCHANGED <<pcLoop, state, sessBus, matchAdded, sigRegistered, c,
                   quitClosed, actions, execErr, exitCode, queryResult,
                   upowerOnBattery, emitted, handled, reqDuringAction>>

\* a mutant that leaves a failed read at the AC_POWER default of the switch
InitialStateErrAsAC(res) ==
    CASE res = "true" -> ON_BATTERY
      [] OTHER -> AC_POWER

\* the state newPowermon derives from the initial query
InitialState(res) ==
    CASE res = "err" -> UNKNOWN
      [] res = "true" -> ON_BATTERY
      [] OTHER -> AC_POWER

\* a mutant of newPowermon without the startup p.stateChange()
MainGetPropertyNoAction ==
    /\ pcMain = "getProperty"
    /\ \E res \in {"err", IF upowerOnBattery THEN "true" ELSE "false"} :
         /\ queryResult' = res
         /\ state' = InitialState(res)
    /\ pcMain' = "addMatch"
    /\ UNCHANGED <<pcLoop, sessBus, sysBus, matchAdded, sigRegistered, c,
                   quitClosed, actions, execErr, exitCode, setupErr, setup,
                   upowerOnBattery, emitted, handled, reqDuringAction>>

\* obj.GetProperty(OnBattery), the construction of p and the start of the
\* startup p.stateChange(): a failed read leaves UNKNOWN and is only logged
MainGetProperty ==
    /\ pcMain = "getProperty"
    /\ \E res \in {"err", IF upowerOnBattery THEN "true" ELSE "false"} :
         /\ queryResult' = res
         /\ state' = InitialState(res)
    /\ actions' = StartAction(state')
    /\ pcMain' = "stateChange"
    /\ UNCHANGED <<pcLoop, sessBus, sysBus, matchAdded, sigRegistered, c,
                   quitClosed, execErr, exitCode, setupErr, setup,
                   upowerOnBattery, emitted, handled, reqDuringAction>>

\* the startup action returns; its error is logged and dropped
MainActionReturn ==
    /\ pcMain = "stateChange"
    /\ \E out \in ExecOutcomes : execErr' = out
    /\ pcMain' = "addMatch"
    /\ UNCHANGED <<pcLoop, state, sessBus, sysBus, matchAdded, sigRegistered, c,
                   quitClosed, actions, exitCode, setupErr, setup, queryResult,
                   upowerOnBattery, emitted, handled, reqDuringAction>>

\* p.sysBus.AddMatchSignal(...) and the return of newPowermon
MainAddMatch ==
    /\ pcMain = "addMatch"
    /\ \E ok \in BOOLEAN :
         /\ setup' = [setup EXCEPT !.match = IF ok THEN "ok" ELSE "fail"]
         /\ IF ok
            THEN /\ matchAdded' = TRUE
                 /\ pcMain' = "goRun"
                 /\ UNCHANGED setupErr
            ELSE /\ setupErr' = "couldn't setup signal listener"
                 /\ pcMain' = "setupFailed"
                 /\ UNCHANGED matchAdded
    /\ UNCHANGED <<pcLoop, state, sessBus, sysBus, sigRegistered, c,
                   quitClosed, actions, execErr, exitCode, queryResult,
                   upowerOnBattery, emitted, handled, reqDuringAction>>

\* main on err != nil from newPowermon: os.Exit(1)
MainSetupFailure ==
    /\ pcMain = "setupFailed"
    /\ pcMain' = "exited"
    /\ exitCode' = 1
    /\ UNCHANGED <<pcLoop, state, sessBus, sysBus, matchAdded, sigRegistered, c,
                   quitClosed, actions, execErr, setupErr, setup, queryResult,
                   upowerOnBattery, emitted, handled, reqDuringAction>>

\* a mutant that starts run before the subscription is made
MainGoRunEarly ==
    /\ pcMain \in {"addMatch", "goRun"}
    /\ pcLoop' = "start"
    /\ pcMain' = "waitSignal"
    /\ UNCHANGED <<state, sessBus, sysBus, matchAdded, sigRegistered, c,
                   quitClosed, actions, execErr, exitCode, setupErr, setup, queryResult,
                   upowerOnBattery, emitted, handled, reqDuringAction>>

\* go pm.run(), then signal.Notify and the wait on sigQuit
MainGoRun ==
    /\ pcMain = "goRun"
    /\ pcLoop' = "start"
    /\ pcMain' = "waitSignal"
    /\ UNCHANGED <<state, sessBus, sysBus, matchAdded, sigRegistered, c,
                   quitClosed, actions, execErr, exitCode, setupErr, setup, queryResult,
                   upowerOnBattery, emitted, handled, reqDuringAction>>

\* SIGINT or SIGTERM is received from sigQuit and pm.shutdown() is called:
\* main is now blocked in the send on p.quitCh
MainSignal ==
    /\ pcMain = "waitSignal"
    /\ pcMain' = "send"
    /\ reqDuringAction' = (reqDuringAction \/ pcLoop = "stateChange")
    /\ UNCHANGED <<pcLoop, state, sessBus, sysBus, matchAdded, sigRegistered, c,
                   quitClosed, actions, execErr, exitCode, setupErr, setup, queryResult,
                   upowerOnBattery, emitted, handled>>

(***************************************************************************)
(* powermon.shutdown, on the main goroutine                                *)
(***************************************************************************)
\* a mutant of shutdown without the wait for the loop's acknowledgement
ShutdownRecvNoWait ==
    /\ pcMain = "recv"
    /\ pcMain' = "closeSys"
    /\ UNCHANGED <<pcLoop, state, sessBus, sysBus, matchAdded, sigRegistered, c,
                   quitClosed, actions, execErr, exitCode, setupErr, setup, queryResult,
                   upowerOnBattery, emitted, handled, reqDuringAction>>

\* <-p.quitCh in shutdown: quitCh is unbuffered and has no other sender, so
\* the receive completes only once the channel is closed
ShutdownRecv ==
    /\ pcMain = "recv"
    /\ quitClosed
    /\ pcMain' = "closeSys"
    /\ UNCHANGED <<pcLoop, state, sessBus, sysBus, matchAdded, sigRegistered, c,
                   quitClosed, actions, execErr, exitCode, setupErr, setup, queryResult,
                   upowerOnBattery, emitted, handled, reqDuringAction>>

\* p.sysBus.Close()
ShutdownCloseSys ==
    /\ pcMain = "closeSys"
    /\ sysBus' = "closed"
    /\ pcMain' = "closeSess"
    /\ UNCHANGED <<pcLoop, state, sessBus, matchAdded, sigRegistered, c,
                   quitClosed, actions, execErr, exitCode, setupErr, setup, queryResult,
                   upowerOnBattery, emitted, handled, reqDuringAction>>

\* p.sessBus.Close() and the return of shutdown
ShutdownCloseSess ==
    /\ pcMain = "closeSess"
    /\ sessBus' = "closed"
    /\ pcMain' = "shutdownReturned"
    /\ UNCHANGED <<pcLoop, state, sysBus, matchAdded, sigRegistered, c,
                   quitClosed, actions, execErr, exitCode, setupErr, setup, queryResult,
                   upowerOnBattery, emitted, handled, reqDuringAction>>

\* os.Exit(0) after shutdown has returned
MainExit ==
    /\ pcMain = "shutdownReturned"
    /\ pcMain' = "exited"
    /\ exitCode' = 0
    /\ UNCHANGED <<pcLoop, state, sessBus, sysBus, matchAdded, sigRegistered, c,
                   quitClosed, actions, execErr, setupErr, setup, queryResult,
                   upowerOnBattery, emitted, handled, reqDuringAction>>

(***************************************************************************)
(* powermon.run, on its own goroutine                                      *)
(***************************************************************************)
\* make(chan *dbus.Signal, 10) and p.sysBus.Signal(c)
LoopStart ==
    /\ Alive
    /\ pcLoop = "start"
    /\ c' = << >>
    /\ sigRegistered' = TRUE
    /\ pcLoop' = "select"
    /\ UNCHANGED <<pcMain, state, sessBus, sysBus, matchAdded,
                   quitClosed, actions, execErr, exitCode, setupErr, setup, queryResult,
                   upowerOnBattery, emitted, handled, reqDuringAction>>

\* a mutant that runs the action only when the state has changed
DispatchOnlyOnChange(val) ==
    LET r == MapLookup(val, onBattery) IN
      /\ handled' = Append(handled, val)
      /\ IF r.ok
         THEN /\ state' = Classify(r.v)
              /\ IF state' # state
                 THEN /\ actions' = StartAction(state')
                      /\ pcLoop' = "stateChange"
                 ELSE UNCHANGED <<actions, pcLoop>>
         ELSE UNCHANGED <<state, actions, pcLoop>>
      /\ UNCHANGED <<pcMain, exitCode>>

\* the body of the select case once val has been taken from the signal: a map
\* without OnBattery is skipped; otherwise the state is overwritten by the
\* classification of the value and p.stateChange() starts the action
Dispatch(val) ==
    LET r == MapLookup(val, onBattery) IN
      /\ handled' = Append(handled, val)
      /\ IF r.ok
         THEN /\ state' = Classify(r.v)
              /\ actions' = StartAction(state')
              /\ pcLoop' = "stateChange"
         ELSE UNCHANGED <<state, actions, pcLoop>>
      /\ UNCHANGED <<pcMain, exitCode>>

\* sig.Body[1].(map[string]dbus.Variant) on a body that has no second
\* argument or whose second argument is no a{sv}: the index or the
\* single-value type assertion panics and the runtime ends the process with
\* status 2
Panic ==
    /\ pcLoop' = "panicked"
    /\ pcMain' = "exited"
    /\ exitCode' = 2
    /\ UNCHANGED <<state, actions, handled>>

\* a mutant that dispatches the action without waiting for it (go p.stateChange())
LoopRecvConcurrent ==
    /\ Alive
    /\ pcLoop \in {"select", "stateChange"}
    /\ c # << >>
    /\ c' = Tail(c)
    /\ IF HasPropertyMap(Head(c))
       THEN Dispatch(Head(c)[2].dict)
       ELSE Panic
    /\ UNCHANGED <<sessBus, sysBus, matchAdded, sigRegistered, quitClosed,
                   execErr, setupErr, setup, queryResult, upowerOnBattery,
                   emitted, reqDuringAction>>

\* a mutant whose loop goes on receiving after the quit case
LoopRecvAfterStop ==
    /\ Alive
    /\ pcLoop \in {"select", "stopped"}
    /\ c # << >>
    /\ c' = Tail(c)
    /\ IF HasPropertyMap(Head(c))
       THEN Dispatch(Head(c)[2].dict)
       ELSE Panic
    /\ UNCHANGED <<sessBus, sysBus, matchAdded, sigRegistered, quitClosed,
                   execErr, setupErr, setup, queryResult, upowerOnBattery,
                   emitted, reqDuringAction>>

\* case sig := <-c: the signal is taken from the channel and its second body
\* argument is asserted to be the changed-properties map and dispatched
LoopRecv ==
    /\ Alive
    /\ pcLoop = "select"
    /\ c # << >>
    /\ c' = Tail(c)
    /\ IF HasPropertyMap(Head(c))
       THEN Dispatch(Head(c)[2].dict)
       ELSE Panic
    /\ UNCHANGED <<sessBus, sysBus, matchAdded, sigRegistered, quitClosed,
                   execErr, setupErr, setup, queryResult, upowerOnBattery,
                   emitted, reqDuringAction>>

\* a mutant in which a failed action ends the loop
LoopActionReturnStopOnError ==
    /\ Alive
    /\ pcLoop = "stateChange"
    /\ \E out \in ExecOutcomes :
         /\ execErr' = out
         /\ pcLoop' = IF out = "nil" THEN "select" ELSE "returning"
    /\ UNCHANGED <<pcMain, state, sessBus, sysBus, matchAdded, sigRegistered, c,
                   quitClosed, actions, exitCode, setupErr, setup, queryResult,
                   upowerOnBattery, emitted, handled, reqDuringAction>>

\* CombinedOutput returns in stateChange called from run: the error is
\* logged and dropped, and the loop goes back to the select
LoopActionReturn ==
    /\ Alive
    /\ pcLoop = "stateChange"
    /\ \E out \in ExecOutcomes : execErr' = out
    /\ pcLoop' = "select"
    /\ UNCHANGED <<pcMain, state, sessBus, sysBus, matchAdded, sigRegistered, c,
                   quitClosed, actions, exitCode, setupErr, setup, queryResult,
                   upowerOnBattery, emitted, handled, reqDuringAction>>

\* a mutant in which the quit request is taken while the action is in flight
LoopQuitDuringAction ==
    /\ pcLoop \in {"select", "stateChange"}
    /\ pcMain = "send"
    /\ pcLoop' = "returning"
    /\ pcMain' = "recv"
    /\ UNCHANGED <<state, sessBus, sysBus, matchAdded, sigRegistered, c,
                   quitClosed, actions, execErr, exitCode, setupErr, setup, queryResult,
                   upowerOnBattery, emitted, handled, reqDuringAction>>

\* case <-p.quitCh: the rendezvous with the send in shutdown; run returns
LoopQuit ==
    /\ pcLoop = "select"
    /\ pcMain = "send"
    /\ pcLoop' = "returning"
    /\ pcMain' = "recv"
    /\ UNCHANGED <<state, sessBus, sysBus, matchAdded, sigRegistered, c,
                   quitClosed, actions, execErr, exitCode, setupErr, setup, queryResult,
                   upowerOnBattery, emitted, handled, reqDuringAction>>

\* a mutant in which run closes the connections before it acknowledges
LoopReturnClosesConns ==
    /\ Alive
    /\ pcLoop = "returning"
    /\ sysBus' = "closed"
    /\ sessBus' = "closed"
    /\ quitClosed' = TRUE
    /\ pcLoop' = "stopped"
    /\ UNCHANGED <<pcMain, state, matchAdded, sigRegistered, c,
                   actions, execErr, exitCode, setupErr, setup, queryResult,
                   upowerOnBattery, emitted, handled, reqDuringAction>>

\* defer close(p.quitCh) as run returns
LoopReturn ==
    /\ Alive
    /\ pcLoop = "returning"
    /\ quitClosed' = TRUE
    /\ pcLoop' = "stopped"
    /\ UNCHANGED <<pcMain, state, sessBus, sysBus, matchAdded, sigRegistered, c,
                   actions, execErr, exitCode, setupErr, setup, queryResult,
                   upowerOnBattery, emitted, handled, reqDuringAction>>

(***************************************************************************)
(* The power service                                                       *)
(***************************************************************************)
\* UPower emits PropertiesChanged with the map val.  A boolean OnBattery in
\* it is the service's new value.  The process observes the service only
\* through its open system bus connection (emissions at other times show only
\* in the value the initial query reads, which Init leaves free), and the
\* signal reaches c only when the match rule is installed and c is registered.
Emit ==
    /\ Alive
    /\ sysBus = "open"
    /\ emitted < MaxEmit
    /\ \E val \in Payloads :
         /\ upowerOnBattery' =
              IF HasOnBattery(val) /\ val[onBattery].sig = "b"
              THEN val[onBattery].b
              ELSE upowerOnBattery
         /\ c' = IF matchAdded /\ sigRegistered
                 THEN Append(c, PropertiesChanged(val))
                 ELSE c
    /\ emitted' = emitted + 1
    /\ UNCHANGED <<pcMain, pcLoop, state, sessBus, sysBus, matchAdded,
                   sigRegistered, quitClosed, actions, execErr, exitCode,
                   setupErr, setup, queryResult, handled, reqDuringAction>>

\* Another peer on the system bus addresses a signal to the connection.
\* p.sysBus.Signal(c) registers c for every signal the connection receives,
\* and a signal with a destination needs no match rule to be routed.
PeerSignal ==
    /\ Alive
    /\ sysBus = "open"
    /\ sigRegistered
    /\ emitted < MaxEmit
    /\ \E body \in OtherBodies : c' = Append(c, body)
    /\ emitted' = emitted + 1
    /\ UNCHANGED <<pcMain, pcLoop, state, sessBus, sysBus, matchAdded,
                   sigRegistered, quitClosed, actions, execErr, exitCode,
                   setupErr, setup, queryResult, upowerOnBattery, handled,
                   reqDuringAction>>

Next ==
    \/ MainFlags
    \/ MainConnectSession
    \/ MainRequestName
    \/ MainConnectSystem
    \/ MainGetProperty
    \/ MainActionReturn
    \/ MainAddMatch
    \/ MainSetupFailure
    \/ MainGoRun
    \/ MainSignal
    \/ ShutdownRecv
    \/ ShutdownCloseSys
    \/ ShutdownCloseSess
    \/ MainExit
    \/ LoopStart
    \/ LoopRecv
    \/ LoopActionReturn
    \/ LoopQuit
    \/ LoopReturn
    \/ Emit
    \/ PeerSignal

Spec == Init /\ [][Next]_vars

TypeOK ==
    /\ state \in {UNKNOWN, ON_BATTERY, AC_POWER}
    /\ sessBus \in {"nil", "open", "closed"}
    /\ sysBus \in {"nil", "open", "closed"}
    /\ emitted \in 0..MaxEmit
    /\ exitCode \in {0, 1, 2}

(***************************************************************************)
(* Fairness: both goroutines keep running while they can take a step, and  *)
(* Go's select picks uniformly among its ready cases, so the quit case is  *)
(* taken if it is ready again and again.  Nothing makes the external       *)
(* action process return, a signal arrive or the power service emit.       *)
(***************************************************************************)
MainProgress ==
    \/ MainFlags
    \/ MainConnectSession
    \/ MainRequestName
    \/ MainConnectSystem
    \/ MainGetProperty
    \/ MainAddMatch
    \/ MainSetupFailure
    \/ MainGoRun
    \/ ShutdownRecv
    \/ ShutdownCloseSys
    \/ ShutdownCloseSess
    \/ MainExit

LoopProgress ==
    \/ LoopStart
    \/ LoopRecv
    \/ LoopReturn

FairSpec ==
    /\ Spec
    /\ WF_vars(MainProgress)
    /\ WF_vars(LoopProgress)
    /\ SF_vars(LoopQuit)

(***************************************************************************)
(* Expected values, stated independently of the functions above            *)
(***************************************************************************)
Last(seq) == seq[Len(seq)]

\* the state a present OnBattery value stands for
ExpectedState(v) ==
    IF v = BoolVariant(TRUE) THEN ON_BATTERY
    ELSE IF v = BoolVariant(FALSE) THEN AC_POWER
    ELSE UNKNOWN

\* the documented argument for each power state
ExpectedName(st) ==
    CASE st = UNKNOWN -> "UNKNOWN"
      [] st = ON_BATTERY -> "ON_BATTERY"
      [] st = AC_POWER -> "AC_POWER"

\* the loop takes a notification from c in this step
Receives == handled' # handled

(***************************************************************************)
(* Notification handling                                                   *)
(***************************************************************************)
\* C1: handling a notification whose property map has no OnBattery key
\* leaves the current state unchanged and starts no action
C1_IgnoredWithoutOnBattery ==
    [][(Receives /\ ~HasOnBattery(Last(handled')))
         => (state' = state /\ actions' = actions)]_vars

\* a LidClosed-only notification was handled while the state was ON_BATTERY
C1_Witness ==
    /\ handled # << >>
    /\ ~HasOnBattery(Last(handled))
    /\ DOMAIN Last(handled) # {}
    /\ state = ON_BATTERY
    /\ Len(actions) = 1

\* C2: handling a notification with OnBattery sets the state from that value
\* alone: boolean true ON_BATTERY, boolean false AC_POWER, else UNKNOWN
C2_StateFromProperty ==
    [][(Receives /\ HasOnBattery(Last(handled')))
         => state' = ExpectedState(Last(handled')[onBattery])]_vars

\* a non-boolean OnBattery was handled from ON_BATTERY and gave UNKNOWN
C2_Witness ==
    /\ Len(handled) = 2
    /\ handled[1] = (onBattery :> BoolVariant(TRUE))
    /\ handled[2] = (onBattery :> StringVariant("true"))
    /\ state = UNKNOWN

\* C3 as stated: a notification that classifies to the current state starts
\* no action
C3_NoActionWithoutTransition ==
    [][(Receives /\ HasOnBattery(Last(handled'))
          /\ ExpectedState(Last(handled')[onBattery]) = state)
         => actions' = actions]_vars

(***************************************************************************)
(* Startup                                                                 *)
(***************************************************************************)
\* C4: once the loop has been started the action has been invoked, first of
\* all with the state of the initial query (UNKNOWN when the query failed),
\* and exactly once as long as no notification has been handled
C4_StartupActionOnce ==
    pcLoop # "notStarted" =>
        /\ Len(actions) >= 1
        /\ actions[1] = << CASE queryResult = "true" -> "ON_BATTERY"
                             [] queryResult = "false" -> "AC_POWER"
                             [] queryResult = "err" -> "UNKNOWN" >>
        /\ (handled = << >> => Len(actions) = 1)

\* the initial query failed and the loop is running with no notification
C4_Witness ==
    /\ queryResult = "err"
    /\ pcLoop = "select"
    /\ emitted = 0
    /\ actions = << <<"UNKNOWN">> >>

\* one of the fatal startup failures has happened
SetupFailed ==
    \/ setup.sess = "fail"
    \/ setup.name \in {"error", "Exists"}
    \/ setup.sys = "fail"
    \/ setup.match = "fail"

\* C10: after a failed session bus connection, name acquisition, system bus
\* connection or subscription the loop is never started, no notification is
\* handled, and the process exits with a non-zero status
C10_SetupFailureAborts ==
    SetupFailed =>
        /\ pcLoop = "notStarted"
        /\ handled = << >>
        /\ pcMain \in {"setupFailed", "exited"}
        /\ (pcMain = "exited" => exitCode # 0)

\* another instance owns the name and the process has exited
C10_Witness ==
    /\ setup.name = "Exists"
    /\ pcMain = "exited"
    /\ exitCode = 1

(***************************************************************************)
(* Shutdown                                                                *)
(***************************************************************************)
ShutdownRequested == pcMain = "send"

\* shutdown() has returned: main is past it, or has gone on to os.Exit(0)
ShutdownReturned == pcMain = "shutdownReturned" \/ (pcMain = "exited" /\ exitCode = 0)

\* C5 as stated: once shutdown is requested, the loop eventually reaches
\* Stopped and the shutdown call eventually returns, whatever the loop is
\* doing when the request arrives
C5_ShutdownTerminates ==
    ShutdownRequested ~> (pcLoop = "stopped" /\ ShutdownReturned)

\* C5 for the behaviours in which no action invocation stays in flight
\* forever: once shutdown is requested, the loop eventually reaches Stopped
\* and the shutdown call eventually returns
C5_ShutdownTerminatesIfActionsReturn ==
    ([]<>(pcLoop # "stateChange")) => C5_ShutdownTerminates

\* C6: whenever shutdown() has returned, the loop has exited and both bus
\* connections are closed
C6_NoPrematureReturn ==
    ShutdownReturned =>
        /\ pcLoop = "stopped"
        /\ quitClosed
        /\ sysBus = "closed"
        /\ sessBus = "closed"

\* shutdown() has returned and main has not yet exited
C6_Witness == pcMain = "shutdownReturned" /\ pcLoop = "stopped"

\* C8: once the loop is Stopped it stays Stopped, takes no notification,
\* never writes the state and never starts an action
C8_NothingAfterStopped ==
    [][pcLoop = "stopped" =>
         /\ pcLoop' = "stopped"
         /\ handled' = handled
         /\ state' = state
         /\ actions' = actions]_vars

\* the loop is Stopped with a notification still pending in the channel
C8_Witness == pcLoop = "stopped" /\ c # << >> /\ sysBus = "open"

(***************************************************************************)
(* The action                                                              *)
(***************************************************************************)
\* C7: an action that fails in the loop leaves the loop at its select with
\* the state it was started for, and the next notification with OnBattery is
\* classified and dispatched as after a success
C7_ActionFailureIsAdvisory ==
    [][/\ (pcLoop = "stateChange" /\ pcLoop' # "stateChange" /\ execErr' # "nil")
          => (pcLoop' = "select" /\ state' = state /\ Alive')
       /\ (execErr \notin {"none", "nil"} /\ Receives /\ HasOnBattery(Last(handled')))
          => /\ state' = ExpectedState(Last(handled')[onBattery])
             /\ actions' = Append(actions, <<ExpectedName(state')>>)
             /\ pcLoop' = "stateChange"]_vars

\* the action of the first notification failed to spawn and the second
\* notification has been dispatched
C7_Witness ==
    /\ execErr = "fork/exec failed"
    /\ Len(handled) = 2
    /\ Len(actions) = 3
    /\ pcLoop = "stateChange"

\* C9: the state is always one of the three power states, and every action
\* invocation adds one command whose only argument is the name of the state
\* held at that moment
C9_ArgumentIsStateName ==
    [][/\ state' \in {UNKNOWN, ON_BATTERY, AC_POWER}
       /\ actions' # actions =>
            /\ actions' = Append(actions, <<ExpectedName(state')>>)
            /\ Len(Last(actions')) = 1
            /\ Last(actions')[1] \in {"UNKNOWN", "ON_BATTERY", "AC_POWER"}]_vars

\* the startup action ran for AC_POWER and a dispatch ran for UNKNOWN
C9_Witness ==
    /\ Len(actions) = 2
    /\ actions[1] = <<"AC_POWER">>
    /\ actions[2] = <<"UNKNOWN">>

(***************************************************************************)
(* Sequencing of the loop                                                  *)
(***************************************************************************)
\* an external action process is running: a goroutine is inside CombinedOutput
ActionInFlight == pcMain = "stateChange" \/ pcLoop = "stateChange"

\* the loop is in its for/select, waiting or handling a notification
LoopRunning == pcLoop \in {"select", "stateChange"}

\* C11: at most one action is in flight, an action is started only when none
\* is in flight, the loop takes neither a notification nor the quit request
\* while its action is in flight, and notifications are taken from the head
\* of the channel, in arrival order
C11_OneAtATime ==
    [][/\ ~(pcMain' = "stateChange" /\ pcLoop' = "stateChange")
       /\ (actions' # actions => ~ActionInFlight)
       /\ (pcLoop = "stateChange" =>
             /\ handled' = handled
             /\ actions' = actions
             /\ pcLoop' \in {"stateChange", "select"})
       /\ (Receives => (handled' = Append(handled, Head(c)[2].dict) /\ c' = Tail(c)))]_vars

\* an action is in flight while a notification and the quit request wait
C11_Witness ==
    /\ pcLoop = "stateChange"
    /\ c # << >>
    /\ pcMain = "send"

\* C12: while the loop has not exited neither connection is closed, and a
\* shutdown requested while an action is in flight leaves the initiator
\* blocked in its send and the action running until it returns by itself
C12_NoInterruption ==
    [][/\ (pcLoop' # "stopped" => (sysBus' # "closed" /\ sessBus' # "closed"))
       /\ ((pcLoop = "stateChange" /\ pcMain = "send") =>
             /\ pcMain' = "send"
             /\ pcLoop' \in {"stateChange", "select"}
             /\ (pcLoop' = "select" => execErr' \in ExecOutcomes)
             /\ state' = state
             /\ actions' = actions)]_vars

\* the request came during an action, which has since returned; the
\* initiator is still blocked and both connections are open
C12_Witness ==
    /\ reqDuringAction
    /\ pcLoop = "select"
    /\ pcMain = "send"
    /\ sysBus = "open"
    /\ sessBus = "open"

\* C13: the loop leaves its for/select only by taking the quit request of a
\* shutdown, and the process does not end while the loop runs and no
\* shutdown has been requested
C13_LeavesOnlyOnShutdown ==
    [][LoopRunning =>
         /\ (~LoopRunning' => (pcMain = "send" /\ pcMain' = "recv" /\ pcLoop' = "returning"))
         /\ (pcMain = "waitSignal" => Alive')]_vars

\* the loop has handled an irrelevant map and a non-boolean OnBattery, an
\* action has failed, and it is still waiting with no shutdown requested
C13_Witness ==
    /\ pcLoop = "select"
    /\ pcMain = "waitSignal"
    /\ execErr = "exit status 1"
    /\ \E i \in 1..Len(handled) : ~HasOnBattery(handled[i])
    /\ \E i \in 1..Len(handled) :
         HasOnBattery(handled[i]) /\ handled[i][onBattery].sig = "s"

(***************************************************************************)
(* Order of startup and of teardown                                        *)
(***************************************************************************)
\* C14: the startup action is started only after the initial query, the
\* subscription is attempted only after the startup action has returned, and
\* the loop is started, and receives signals, only after the subscription
C14_StartupOrder ==
    /\ (actions # << >> => queryResult # "none")
    /\ (setup.match # "none" =>
          (actions # << >> /\ pcMain # "stateChange" /\ execErr # "none"))
    /\ (pcLoop # "notStarted" =>
          (matchAdded /\ setup.match = "ok" /\ actions # << >> /\ execErr # "none"))
    /\ ((sigRegistered \/ c # << >> \/ handled # << >>) => pcLoop # "notStarted")

\* the loop waits in its select after query, startup action and subscription
C14_Witness ==
    /\ pcLoop = "select"
    /\ pcMain = "waitSignal"
    /\ queryResult = "true"
    /\ Len(actions) = 1
    /\ matchAdded
    /\ handled = << >>

\* the initiator has received the loop's completion acknowledgement
AckReceived ==
    \/ pcMain \in {"closeSys", "closeSess", "shutdownReturned"}
    \/ (pcMain = "exited" /\ exitCode = 0)

\* C15 as stated: whenever the initiator has received the acknowledgement,
\* both connections are already closed
C15_ClosedBeforeAck == AckReceived => (sysBus = "closed" /\ sessBus = "closed")

\* C15 amended: the initiator receives the acknowledgement once the loop has
\* exited and while both connections are still open, a connection is closed
\* only after the acknowledgement was received, and both are closed when
\* shutdown() returns
C15_AckBeforeClose ==
    [][/\ ((pcMain = "recv" /\ pcMain' # "recv" /\ Alive') =>
             /\ quitClosed
             /\ pcLoop = "stopped"
             /\ sysBus' = "open"
             /\ sessBus' = "open")
       /\ ((sysBus' = "closed" \/ sessBus' = "closed") => AckReceived')
       /\ (pcMain' = "shutdownReturned" => (sysBus' = "closed" /\ sessBus' = "closed"))]_vars

\* the acknowledgement has been received and both connections are open
C15_Witness ==
    /\ pcMain = "closeSys"
    /\ quitClosed
    /\ pcLoop = "stopped"
    /\ sysBus = "open"
    /\ sessBus = "open"

\* C18: a startup that failed at a bus connection or at the name acquisition
\* has started no action; one that failed at the subscription has started
\* exactly one
C18_ActionsBeforeFatalError ==
    /\ ((setup.sess = "fail" \/ setup.name \in {"error", "Exists"} \/ setup.sys = "fail")
          => actions = << >>)
    /\ (setup.match = "fail" => (Len(actions) = 1 /\ handled = << >>))

\* the subscription failed after the startup action ran for the queried state
C18_Witness ==
    /\ setup.match = "fail"
    /\ pcMain = "exited"
    /\ exitCode = 1
    /\ actions = << <<"ON_BATTERY">> >>

(***************************************************************************)
(* The action log and the tracked state                                    *)
(***************************************************************************)
RECURSIVE ExpectedArgs(_)
\* the argument vectors owed to a sequence of handled property maps: one per
\* map with OnBattery, naming the state its value stands for
ExpectedArgs(h) ==
    IF h = << >> THEN << >>
    ELSE (IF HasOnBattery(Head(h))
          THEN << <<ExpectedName(ExpectedState(Head(h)[onBattery]))>> >>
          ELSE << >>) \o ExpectedArgs(Tail(h))

\* the notifications with OnBattery among a sequence of handled maps
WithOnBattery(h) == SelectSeq(h, HasOnBattery)

C17_StateMatchesService ==
    (pcLoop = "select" /\ c = << >> /\ queryResult # "err" /\ state # UNKNOWN) =>
        /\ state = (IF upowerOnBattery THEN ON_BATTERY ELSE AC_POWER)
        /\ Last(actions) = << IF upowerOnBattery THEN "ON_BATTERY" ELSE "AC_POWER" >>

====
